---------------------------- MODULE Spec2Model ----------------------------
(***************************************************************************)
(* Model of app.py: the start-up script that loads the POI table and the   *)
(* visitor-origin table, groups the visits by placekey, builds the base    *)
(* figure, and the Dash callback update_map that answers every click.      *)
(*                                                                         *)
(* Python values are tagged records.  A string is a sequence of one-       *)
(* character strings, so that str() is a real conversion: str(7) and "7"   *)
(* give the same sequence, " a", "a" and "A" give three different ones.    *)
(* A float is an exact fraction [n, d] in lowest terms.                    *)
(***************************************************************************)
EXTENDS Integers, Sequences, FiniteSets, TLC

\* Bounds of the model: the longest POI table, the longest visitor-origin
\* table beside several POIs, and the longest beside one POI.
MaxPois == 2
MaxRecs == 1
MaxRows == 3

-----------------------------------------------------------------------------
(* Python values *)

None == [t |-> "None"]
PyStr(s) == [t |-> "str", v |-> s]
PyInt(n) == [t |-> "int", v |-> n]
PyFloat(r) == [t |-> "float", v |-> r]
PyList(xs) == [t |-> "list", v |-> xs]
PyTuple(xs) == [t |-> "tuple", v |-> xs]

RECURSIVE GCD(_, _)
GCD(a, b) == IF b = 0 THEN a ELSE GCD(b, a % b)

Abs(n) == IF n < 0 THEN -n ELSE n

\* The fraction n/d (d # 0) in lowest terms with a positive denominator.
Rat(n, d) ==
    LET g == GCD(Abs(n), Abs(d))
        s == IF d < 0 THEN -1 ELSE 1
    IN  [n |-> (s * n) \div g, d |-> (s * d) \div g]

RatAdd(a, b) == Rat(a.n * b.d + b.n * a.d, a.d * b.d)
RatMul(a, b) == Rat(a.n * b.n, a.d * b.d)
RatDiv(a, b) == Rat(a.n * b.d, a.d * b.n)
RatLeq(a, b) == a.n * b.d <= b.n * a.d
RatLt(a, b) == a.n * b.d < b.n * a.d
Zero == Rat(0, 1)

\* int(x) of a float: truncation toward zero.
Trunc(r) == IF r.n >= 0 THEN r.n \div r.d ELSE -((-r.n) \div r.d)

DigitChar(k) == <<"0", "1", "2", "3", "4", "5", "6", "7", "8", "9">>[k + 1]

RECURSIVE Digits(_)
Digits(n) == IF n < 10 THEN <<DigitChar(n)>>
             ELSE Digits(n \div 10) \o <<DigitChar(n % 10)>>

\* str(n) of an int.
IntToStr(n) == IF n < 0 THEN <<"-">> \o Digits(-n) ELSE Digits(n)

\* repr(x) of a scalar, as str() of a list or tuple renders its elements.
Repr(x) ==
    CASE x.t = "str" -> <<"'">> \o x.v \o <<"'">>
      [] x.t = "int" -> IntToStr(x.v)
      [] OTHER -> <<"N", "o", "n", "e">>

RECURSIVE Join(_)
Join(xs) == IF Len(xs) = 0 THEN <<>>
            ELSE IF Len(xs) = 1 THEN Repr(xs[1])
            ELSE Repr(xs[1]) \o <<",", " ">> \o Join(Tail(xs))

\* Python's str(x).
Str(x) ==
    CASE x.t = "str" -> x.v
      [] x.t = "int" -> IntToStr(x.v)
      [] x.t = "None" -> <<"N", "o", "n", "e">>
      [] x.t = "list" -> <<"[">> \o Join(x.v) \o <<"]">>
      [] x.t = "tuple" ->
            <<"(">> \o Join(x.v) \o (IF Len(x.v) = 1 THEN <<",">> ELSE <<>>) \o <<")">>


\* Trimming and lower-casing of a string: the canonical form the
\* specification text speaks of.
UpperCase == <<"A", "B", "C", "D", "E", "F", "G", "H", "I", "J", "K", "L", "M",
               "N", "O", "P", "Q", "R", "S", "T", "U", "V", "W", "X", "Y", "Z">>
LowerCase == <<"a", "b", "c", "d", "e", "f", "g", "h", "i", "j", "k", "l", "m",
               "n", "o", "p", "q", "r", "s", "t", "u", "v", "w", "x", "y", "z">>
LowerChar(c) ==
    IF \E k \in DOMAIN UpperCase : UpperCase[k] = c
    THEN LowerCase[CHOOSE k \in DOMAIN UpperCase : UpperCase[k] = c]
    ELSE c
Lower(s) == [i \in DOMAIN s |-> LowerChar(s[i])]

RECURSIVE LStrip(_)
LStrip(s) == IF Len(s) > 0 /\ s[1] = " " THEN LStrip(Tail(s)) ELSE s

RECURSIVE RStrip(_)
RStrip(s) == IF Len(s) > 0 /\ s[Len(s)] = " "
             THEN RStrip(SubSeq(s, 1, Len(s) - 1)) ELSE s

Canonical(s) == Lower(RStrip(LStrip(s)))

-----------------------------------------------------------------------------
(* The two CSV files *)

PoiColumns == {"placekey", "location_name", "latitude", "longitude", "raw_visit_counts"}
VisitColumns == {"placekey", "county", "NAME", "lat", "lon", "visits"}

Chars(s) == PyStr(s)
Num(n, d) == PyFloat(Rat(n, d))

PoiRow(pk, name, lat, raw) ==
    [placekey |-> pk, location_name |-> Chars(name), latitude |-> lat,
     longitude |-> Num(-90, 1), raw_visit_counts |-> raw]

VisitRow(pk, county, name, lat, visits) ==
    [placekey |-> pk, county |-> PyInt(county), NAME |-> Chars(name),
     lat |-> lat, lon |-> Num(-88, 1), visits |-> visits]

\* Well-formed POI rows: identifiers that differ in case, and a numeric one.
\* The second row carries a non-numeric latitude.
PoiPool ==
    { PoiRow(Chars(<<"a">>), <<"X">>, Num(41, 1), PyInt(12)),
      PoiRow(Chars(<<"A">>), <<"Y">>, Chars(<<"?">>), PyInt(3)),
      PoiRow(PyInt(7), <<"Z">>, Num(36, 1), Num(9, 2)) }

\* A POI row whose raw visit count is not a number, and a well-formed one.
BadPoiPool ==
    { PoiRow(Chars(<<" ", "a">>), <<"W">>, Num(41, 1), Chars(<<"x">>)),
      PoiRow(Chars(<<"a">>), <<"X">>, Num(41, 1), PyInt(12)) }

\* Visitor-origin rows: three of POI "a" (visits 10, 5, 0), one of "A" with a
\* fractional count and a non-numeric latitude, one of the number 7 with a
\* negative count and one of the string "7".
VisitPool ==
    { VisitRow(Chars(<<"a">>), 1, <<"C">>, Num(42, 1), Num(10, 1)),
      VisitRow(Chars(<<"a">>), 1, <<"C">>, Num(42, 1), Num(5, 1)),
      VisitRow(Chars(<<"a">>), 2, <<"L">>, Num(43, 1), Num(0, 1)),
      VisitRow(Chars(<<"A">>), 2, <<"L">>, Chars(<<"?">>), Num(5, 2)),
      VisitRow(PyInt(7), 1, <<"C">>, Num(42, 1), Num(-1, 1)),
      VisitRow(Chars(<<"7">>), 2, <<"L">>, Num(43, 1), Num(3, 2)) }

\* A visitor-origin row whose visit count is not a number, and a well-formed
\* one.
BadVisitPool ==
    { VisitRow(Chars(<<" ", "a">>), 1, <<"C">>, Num(42, 1), Chars(<<"x">>)),
      VisitRow(Chars(<<"a">>), 1, <<"C">>, Num(42, 1), Num(10, 1)) }

\* Rows of one POI with visit counts 10, 5, 5/2, 0 and -1.
GroupPool ==
    { VisitRow(Chars(<<"a">>), 1, <<"C">>, Num(42, 1), Num(v, 2)) :
         v \in {20, 10, 5, 0, -2} }


\* Bound of the model: the longest table of a file with a missing column or
\* a non-numeric count.
MaxBadRecs == 1

\* All sequences over S of length at most n.
SeqsUpTo(S, n) == UNION { [1..k -> S] : k \in 0..n }

\* A header with every column, or with one column missing.
Headers(all) == {all} \cup { all \ {c} : c \in all }

Table(cols, rows) == [columns |-> cols, rows |-> rows]

VARIABLES
    csv_poi,             \* df_poi_raw_jan.csv
    csv_visits,          \* df_visits_cnty_geo.csv.gz
    pc,                  \* position of the start-up script
    error,               \* the exception that ended the script, or None
    df_poi_raw_jan,
    df_visits_cnty_geo,
    visits_by_placekey,
    base_fig,
    clickData,           \* the input of the last callback invocation
    fig,                 \* the figure the last invocation returned
    info,                \* the text the last invocation returned
    prevClick            \* history: the input of the invocation before the last

vars == <<csv_poi, csv_visits, pc, error, df_poi_raw_jan, df_visits_cnty_geo,
          visits_by_placekey, base_fig, clickData, fig, info, prevClick>>

\* A name that is not bound yet.
Unbound == [t |-> "unbound"]

\* The script before its first statement.
Start ==
    /\ pc = "read_csv"
    /\ error = None
    /\ df_poi_raw_jan = Unbound
    /\ df_visits_cnty_geo = Unbound
    /\ visits_by_placekey = Unbound
    /\ base_fig = Unbound
    /\ clickData = Unbound
    /\ fig = Unbound
    /\ info = Unbound
    /\ prevClick = Unbound

OnePoi == <<PoiRow(Chars(<<"a">>), <<"X">>, Num(41, 1), PyInt(12))>>
TwoPois == <<PoiRow(Chars(<<"a">>), <<"X">>, Num(41, 1), PyInt(12)),
             PoiRow(Chars(<<"A">>), <<"Y">>, Chars(<<"?">>), PyInt(3))>>

\* Several POIs beside a short visits table.
ManyPois ==
    /\ csv_poi \in { Table(PoiColumns, r) : r \in SeqsUpTo(PoiPool, MaxPois) }
    /\ csv_visits \in { Table(VisitColumns, r) : r \in SeqsUpTo(VisitPool, MaxRecs) }

\* One POI beside a longer visits table of several POIs.
ManyRows ==
    /\ csv_poi = Table(PoiColumns, OnePoi)
    /\ csv_visits \in { Table(VisitColumns, r) : r \in SeqsUpTo(VisitPool, MaxRows) }

\* One POI beside a visits table of its own rows.
OneGroup ==
    /\ csv_poi = Table(PoiColumns, OnePoi)
    /\ csv_visits \in { Table(VisitColumns, r) : r \in SeqsUpTo(GroupPool, MaxRows) }

\* Short tables that may lack a column or hold a non-numeric count.
Defective ==
    /\ csv_poi \in { Table(h, r) : h \in Headers(PoiColumns),
                                   r \in SeqsUpTo(BadPoiPool, MaxBadRecs) }
    /\ csv_visits \in { Table(h, r) : h \in Headers(VisitColumns),
                                      r \in SeqsUpTo(BadVisitPool, MaxBadRecs) }

Init ==
    /\ ManyPois \/ ManyRows \/ OneGroup \/ Defective
    /\ Start

\* The files for click sequences: the POIs "a" and "A" beside the county-2
\* rows of the POIs "a", "A" and "7".
InitHistory ==
    /\ csv_poi = Table(PoiColumns, TwoPois)
    /\ csv_visits \in
          { Table(VisitColumns, r) :
               r \in SeqsUpTo({ q \in VisitPool : q.placekey.t = "str"
                                                  /\ q.county.v = 2 }, MaxRows) }
    /\ Start

-----------------------------------------------------------------------------
(* pandas *)

\* AsTypeStr followed by trimming and lower-casing.
AsTypeStrCanonical(col) == [i \in DOMAIN col |-> PyStr(Canonical(Str(col[i])))]

\* Series.astype(str): str() of every cell.
AsTypeStr(col) == [i \in DOMAIN col |-> PyStr(Str(col[i]))]

IsNumber(x) == x.t \in {"int", "float"}

\* float(x) and int(x) of a numeric cell.
ToFloat(x) == IF x.t = "int" THEN Rat(x.v, 1) ELSE x.v
ToInt(x) == IF x.t = "int" THEN x.v ELSE Trunc(x.v)

\* Series.astype(float) and Series.astype(int) raise ValueError on a cell
\* that is not a number.
AsTypeRaises(col) == \E i \in DOMAIN col : ~IsNumber(col[i])
AsTypeFloat(col) == [i \in DOMAIN col |-> PyFloat(ToFloat(col[i]))]
AsTypeInt(col) == [i \in DOMAIN col |-> PyInt(ToInt(col[i]))]

Column(rows, c) == [i \in DOMAIN rows |-> rows[i][c]]
SetColumn(rows, c, col) == [i \in DOMAIN rows |-> [rows[i] EXCEPT ![c] = col[i]]]

\* DataFrame.groupby(c): one group per distinct key, the rows of a group in
\* their order in the frame, re-indexed from the start.
DataFrame(rows) == [t |-> "DataFrame", rows |-> rows]
GroupKeys(rows, c) == { rows[i][c].v : i \in DOMAIN rows }

\* GroupBy that keeps one row per key, the last.
GroupByLastRow(rows, c) ==
    [pk \in GroupKeys(rows, c) |->
        LET g == SelectSeq(rows, LAMBDA r : r[c].v = pk)
        IN  DataFrame(<<g[Len(g)]>>)]

GroupBy(rows, c) ==
    [pk \in GroupKeys(rows, c) |->
        DataFrame(SelectSeq(rows, LAMBDA r : r[c].v = pk))]

\* HasColumns that finds every column.
HasColumnsAlways(df, cols) == TRUE

\* Selecting columns raises KeyError unless the frame has them all.
HasColumns(df, cols) == cols \subseteq df.columns

Raise(exc) ==
    /\ pc' = "failed"
    /\ error' = exc

-----------------------------------------------------------------------------
(* The start-up script *)

\* pd.read_csv of the two files.
ReadCsv ==
    /\ pc = "read_csv"
    /\ df_poi_raw_jan' = csv_poi
    /\ df_visits_cnty_geo' = csv_visits
    /\ pc' = "placekey"
    /\ UNCHANGED <<csv_poi, csv_visits, error, visits_by_placekey, base_fig,
                   clickData, fig, info, prevClick>>

\* df["placekey"] = df["placekey"].astype(str), on both frames.
PlacekeyAsStr ==
    /\ pc = "placekey"
    /\ IF ~HasColumns(df_poi_raw_jan, {"placekey"})
       THEN /\ Raise("KeyError")
            /\ UNCHANGED <<df_poi_raw_jan, df_visits_cnty_geo>>
       ELSE /\ df_poi_raw_jan' =
                 [df_poi_raw_jan EXCEPT !.rows =
                     SetColumn(@, "placekey", AsTypeStr(Column(@, "placekey")))]
            /\ IF ~HasColumns(df_visits_cnty_geo, {"placekey"})
               THEN /\ Raise("KeyError")
                    /\ UNCHANGED df_visits_cnty_geo
               ELSE /\ df_visits_cnty_geo' =
                         [df_visits_cnty_geo EXCEPT !.rows =
                             SetColumn(@, "placekey", AsTypeStr(Column(@, "placekey")))]
                    /\ pc' = "groupby"
                    /\ UNCHANGED error
    /\ UNCHANGED <<csv_poi, csv_visits, visits_by_placekey, base_fig,
                   clickData, fig, info, prevClick>>

\* The columns df_visits_small selects.
SmallColumns == {"placekey", "county", "NAME", "lat", "lon", "visits"}

\* df_visits_small and the dictionary visits_by_placekey built from it.
GroupVisits ==
    /\ pc = "groupby"
    /\ IF ~HasColumns(df_visits_cnty_geo, SmallColumns)
       THEN /\ Raise("KeyError")
            /\ UNCHANGED visits_by_placekey
       ELSE LET small == df_visits_cnty_geo.rows
                keyed == SetColumn(small, "placekey",
                                   AsTypeStr(Column(small, "placekey")))
            IN  IF AsTypeRaises(Column(keyed, "visits"))
                THEN /\ Raise("ValueError")
                     /\ UNCHANGED visits_by_placekey
                ELSE /\ visits_by_placekey' =
                          GroupBy(SetColumn(keyed, "visits",
                                            AsTypeFloat(Column(keyed, "visits"))),
                                  "placekey")
                     /\ pc' = "scatter_mapbox"
                     /\ UNCHANGED error
    /\ UNCHANGED <<csv_poi, csv_visits, df_poi_raw_jan, df_visits_cnty_geo,
                   base_fig, clickData, fig, info, prevClick>>

\* A figure attribute is one value for the whole trace or one per point.
Scalar(x) == [t |-> "scalar", v |-> x]
Array(xs) == [t |-> "array", v |-> xs]

\* The columns px.scatter_mapbox is told to read.
MapboxColumns == {"latitude", "longitude", "location_name"}

\* px.scatter_mapbox(df, ...): one trace, one point per POI row.
scatter_mapbox(rows) ==
    [data |-> << [name |-> "",
                  lat |-> Column(rows, "latitude"),
                  lon |-> Column(rows, "longitude"),
                  hovertext |-> Column(rows, "location_name"),
                  marker |-> [size |-> Unbound, opacity |-> Unbound],
                  customdata |-> Unbound] >>]

\* base_fig = px.scatter_mapbox(...)
ScatterMapbox ==
    /\ pc = "scatter_mapbox"
    /\ IF ~HasColumns(df_poi_raw_jan, MapboxColumns)
       THEN /\ Raise("ValueError")
            /\ UNCHANGED base_fig
       ELSE /\ base_fig' = scatter_mapbox(df_poi_raw_jan.rows)
            /\ pc' = "update_traces"
            /\ UNCHANGED error
    /\ UNCHANGED <<csv_poi, csv_visits, df_poi_raw_jan, df_visits_cnty_geo,
                   visits_by_placekey, clickData, fig, info, prevClick>>

\* Marker size and opacity of the POI trace.
PoiMarkerSize == Rat(6, 1)
FullOpacity == Rat(1, 1)

\* poi_customdata: one [placekey, raw_visit_counts] pair per POI row.
PoiCustomdata(rows) ==
    [i \in DOMAIN rows |->
        PyList(<<AsTypeStr(Column(rows, "placekey"))[i],
                 AsTypeInt(Column(rows, "raw_visit_counts"))[i]>>)]

\* base_fig.update_traces(marker, customdata, name, hovertemplate)
update_traces(f, customdata) ==
    [f EXCEPT !.data[1].marker = [size |-> Scalar(PoiMarkerSize),
                                  opacity |-> Scalar(FullOpacity)],
              !.data[1].customdata = customdata,
              !.data[1].name = "Casinos"]

\* poi_customdata and base_fig.update_traces(...); then the layout is built
\* with base_fig and the server starts.
UpdateTraces ==
    /\ pc = "update_traces"
    /\ IF ~HasColumns(df_poi_raw_jan, {"raw_visit_counts"})
       THEN /\ Raise("KeyError")
            /\ UNCHANGED base_fig
       ELSE IF AsTypeRaises(Column(df_poi_raw_jan.rows, "raw_visit_counts"))
       THEN /\ Raise("ValueError")
            /\ UNCHANGED base_fig
       ELSE /\ base_fig' =
                 update_traces(base_fig, PoiCustomdata(df_poi_raw_jan.rows))
            /\ pc' = "serving"
            /\ UNCHANGED error
    /\ UNCHANGED <<csv_poi, csv_visits, df_poi_raw_jan, df_visits_cnty_geo,
                   visits_by_placekey, clickData, fig, info, prevClick>>

-----------------------------------------------------------------------------
(* The callback update_map *)

DimOpacity == Rat(3, 10)
CountyOpacity == Rat(7, 10)
SizeBase == Rat(6, 1)
SizeSpan == Rat(18, 1)
SizeFallback == Rat(8, 1)

\* dict.get(key) of a click point.
PointGet(point, key) == IF key \in DOMAIN point THEN point[key] ELSE None

\* NormalizeClick with the raw count taken from the last element.
NormalizeClickLast(cd) ==
    IF cd.t \in {"list", "tuple"} /\ Len(cd.v) > 0
    THEN [placekey_clicked |-> Str(cd.v[1]), raw_visits |-> cd.v[Len(cd.v)]]
    ELSE [placekey_clicked |-> Str(cd), raw_visits |-> None]

\* placekey_clicked and raw_visits from the point's customdata.
NormalizeClick(cd) ==
    IF cd.t \in {"list", "tuple"} /\ Len(cd.v) > 0
    THEN [placekey_clicked |-> Str(cd.v[1]),
          raw_visits |-> IF Len(cd.v) > 1 THEN cd.v[2] ELSE None]
    ELSE [placekey_clicked |-> Str(cd), raw_visits |-> None]

\* FigureCopy without the copy: fig is bound to the object src itself.
FigureAlias(objs, src) == [objs |-> objs, ref |-> src]

\* go.Figure(base_fig): a new figure object with the contents of src. objs
\* maps every live figure object to its contents; ref names the object the
\* local variable fig is bound to.
FigureCopy(objs, src) ==
    [objs |-> [objs EXCEPT !["fig"] = objs[src]], ref |-> "fig"]

\* Opacities with only the first matching POI left at full opacity.
OpacitiesFirstMatch(placekeys, placekey_clicked) ==
    [i \in DOMAIN placekeys |->
        IF /\ Str(placekeys[i]) = placekey_clicked
           /\ \A j \in 1..(i - 1) : Str(placekeys[j]) # placekey_clicked
        THEN FullOpacity ELSE DimOpacity]

\* mask and opacities: 1.0 for a POI whose placekey is the clicked one.
Opacities(placekeys, placekey_clicked) ==
    [i \in DOMAIN placekeys |->
        IF Str(placekeys[i]) = placekey_clicked THEN FullOpacity ELSE DimOpacity]

\* IndexGet that also finds a key differing from the clicked one in case.
IndexGetAnyCase(index, placekey_clicked) ==
    IF \E k \in DOMAIN index : Lower(k) = Lower(placekey_clicked)
    THEN index[CHOOSE k \in DOMAIN index : Lower(k) = Lower(placekey_clicked)]
    ELSE None

\* visits_by_placekey.get(placekey_clicked)
IndexGet(index, placekey_clicked) ==
    IF placekey_clicked \in DOMAIN index THEN index[placekey_clicked] ELSE None

\* tmp is None or tmp.empty
NoData(tmp) == tmp.t = "None" \/ Len(tmp.rows) = 0

RECURSIVE SeriesMax(_)
SeriesMax(xs) ==
    IF Len(xs) = 1 THEN xs[1]
    ELSE LET m == SeriesMax(Tail(xs))
         IN  IF RatLeq(m, xs[1]) THEN xs[1] ELSE m

RECURSIVE SeriesSum(_)
SeriesSum(xs) == IF Len(xs) = 0 THEN Zero ELSE RatAdd(xs[1], SeriesSum(Tail(xs)))

\* The float values of a visits column.
Floats(col) == [i \in DOMAIN col |-> col[i].v]

\* MarkerSizes scaled by the sum of the group's visit counts.
MarkerSizesBySum(visits) ==
    IF RatLt(Zero, SeriesMax(visits)) /\ RatLt(Zero, SeriesSum(visits))
    THEN Array([i \in DOMAIN visits |->
                  RatAdd(SizeBase,
                         RatMul(SizeSpan, RatDiv(visits[i], SeriesSum(visits))))])
    ELSE Scalar(SizeFallback)

\* sizes: scaled by the largest visit count of the group, or the fallback.
MarkerSizes(visits) ==
    IF RatLt(Zero, SeriesMax(visits))
    THEN Array([i \in DOMAIN visits |->
                  RatAdd(SizeBase,
                         RatMul(SizeSpan, RatDiv(visits[i], SeriesMax(visits))))])
    ELSE Scalar(SizeFallback)

\* hovertext of the county markers: name, FIPS code, whole visitors.
HoverText(tmp) ==
    [i \in DOMAIN tmp.rows |->
        [County |-> Str(tmp.rows[i].NAME),
         FIPS |-> Str(tmp.rows[i].county),
         Visitors |-> IntToStr(Trunc(tmp.rows[i].visits.v))]]

\* fig.add_scattermapbox(...) for the rows of tmp.
CountyTrace(tmp) ==
    [name |-> "Visitor counties",
     lat |-> Column(tmp.rows, "lat"),
     lon |-> Column(tmp.rows, "lon"),
     mode |-> "markers",
     marker |-> [size |-> MarkerSizes(Floats(Column(tmp.rows, "visits"))),
                 opacity |-> Scalar(CountyOpacity),
                 color |-> "red"],
     hovertext |-> HoverText(tmp),
     hoverinfo |-> "text"]

\* The number of distinct values of a column.
NUnique(col) == Cardinality({ col[i] : i \in DOMAIN col })

PromptText == [text |-> "Click a casino to see visitor origin counties."]

NoDataText(placekey_clicked, raw_visits) ==
    [text |-> "No county-level visitor data found for this POI.",
     placekey |-> placekey_clicked,
     raw_visit_counts |-> raw_visits]

\* MatchedText with the rows counted in place of the distinct counties.
MatchedTextRows(placekey_clicked, raw_visits, tmp) ==
    [text |-> "Matched county rows",
     placekey |-> placekey_clicked,
     raw_visit_counts |-> raw_visits,
     rows |-> Len(tmp.rows),
     counties |-> Len(tmp.rows),
     total |-> Trunc(SeriesSum(Floats(Column(tmp.rows, "visits"))))]

MatchedText(placekey_clicked, raw_visits, tmp) ==
    [text |-> "Matched county rows",
     placekey |-> placekey_clicked,
     raw_visit_counts |-> raw_visits,
     rows |-> Len(tmp.rows),
     counties |-> NUnique(Column(tmp.rows, "county")),
     total |-> Trunc(SeriesSum(Floats(Column(tmp.rows, "visits"))))]

\* update_map(click) run with the figure objects objs, the POI frame and the
\* index: the figure and the text it returns, and the figure objects after.
update_map(click, objs, poi, index) ==
    LET new == FigureCopy(objs, "base_fig")
        f == new.ref
    IN  IF click = None
        THEN [fig |-> new.objs[f], info |-> PromptText, objs |-> new.objs]
        ELSE
        LET cd == PointGet(click.points[1], "customdata")
            norm == NormalizeClick(cd)
            placekey_clicked == norm.placekey_clicked
            raw_visits == norm.raw_visits
            opacities == Opacities(Column(poi.rows, "placekey"), placekey_clicked)
            dimmed == [new.objs EXCEPT ![f].data[1].marker.opacity = Array(opacities)]
            tmp == IndexGet(index, placekey_clicked)
        IN  IF NoData(tmp)
            THEN [fig |-> dimmed[f],
                  info |-> NoDataText(placekey_clicked, raw_visits),
                  objs |-> dimmed]
            ELSE
            LET added == [dimmed EXCEPT ![f].data = Append(@, CountyTrace(tmp))]
            IN  [fig |-> added[f],
                 info |-> MatchedText(placekey_clicked, raw_visits, tmp),
                 objs |-> added]

Point(cd) == [curveNumber |-> 0, customdata |-> cd]
Click(point) == [points |-> <<point>>]

\* The clicks the browser can send: none yet, a POI marker (its customdata
\* pair), a county marker (no customdata), and customdata of other shapes.
Clicks ==
    {None, Click([curveNumber |-> 1])}
    \cup { Click(Point(base_fig.data[1].customdata[i])) :
              i \in DOMAIN base_fig.data[1].customdata }
    \cup { Click(Point(cd)) :
              cd \in { PyStr(<<"a">>), PyInt(7), PyList(<<>>), PyTuple(<<>>),
                       PyList(<<PyStr(<<"A">>)>>),
                       PyList(<<PyStr(<<"z">>), PyInt(1)>>) } }

\* One invocation of the callback. The figure objects that are still
\* referenced when it returns are base_fig and the returned figure.
Callback ==
    /\ pc = "serving"
    /\ \E click \in Clicks :
          LET r == update_map(click, [base_fig |-> base_fig, fig |-> Unbound],
                              df_poi_raw_jan, visits_by_placekey)
          IN  /\ clickData' = click
              /\ fig' = r.fig
              /\ info' = r.info
              /\ base_fig' = r.objs.base_fig
    /\ UNCHANGED <<csv_poi, csv_visits, pc, error, df_poi_raw_jan,
                   df_visits_cnty_geo, visits_by_placekey>>

UpdateMap == Callback /\ UNCHANGED prevClick

\* The same invocation, with the history variable recording the input of
\* the invocation before it.
UpdateMapAfter == Callback /\ prevClick' = clickData

Next ==
    \/ ReadCsv
    \/ PlacekeyAsStr
    \/ GroupVisits
    \/ ScatterMapbox
    \/ UpdateTraces
    \/ UpdateMap

NextHistory ==
    \/ ReadCsv
    \/ PlacekeyAsStr
    \/ GroupVisits
    \/ ScatterMapbox
    \/ UpdateTraces
    \/ UpdateMapAfter

Spec == Init /\ [][Next]_vars
SpecHistory == InitHistory /\ [][NextHistory]_vars

-----------------------------------------------------------------------------
(* Properties *)

\* The callback has returned at least once; its last input was a click.
Called == clickData # Unbound
Clicked == Called /\ clickData # None

\* The customdata of the last click and the identifier derived from it.
LastCustomdata == PointGet(clickData.points[1], "customdata")
LastId == NormalizeClick(LastCustomdata).placekey_clicked

\* The opacity of POI i in figure f.
PoiOpacity(f, i) ==
    LET o == f.data[1].marker.opacity
    IN  IF o.t = "scalar" THEN o.v ELSE o.v[i]

\* The rows of the visits file whose identifier, as a string, is id.
RowsOf(id) == { i \in DOMAIN csv_visits.rows : Str(csv_visits.rows[i].placekey) = id }

\* C1: after a click the opacity vector has one entry per POI of the file,
\* in file order; entry i is 1.0 exactly when the string form of POI i's
\* identifier is the clicked identifier and 0.3 otherwise; with no click
\* every POI has opacity 1.0.
C1_OpacityPartition ==
    Called =>
        IF clickData = None
        THEN \A i \in DOMAIN csv_poi.rows : PoiOpacity(fig, i) = Rat(1, 1)
        ELSE /\ fig.data[1].marker.opacity.t = "array"
             /\ Len(fig.data[1].marker.opacity.v) = Len(csv_poi.rows)
             /\ \A i \in DOMAIN csv_poi.rows :
                   /\ PoiOpacity(fig, i) \in {Rat(1, 1), Rat(3, 10)}
                   /\ PoiOpacity(fig, i) = Rat(1, 1)
                         <=> Str(csv_poi.rows[i].placekey) = LastId

\* Two POIs share the clicked identifier and both are at 1.0, or a click
\* leaves one POI at 1.0 and another at 0.3.
C1_Witness ==
    /\ Clicked
    /\ Len(csv_poi.rows) = 2
    /\ PoiOpacity(fig, 1) = Rat(1, 1)
    /\ \/ /\ csv_poi.rows[1].placekey = csv_poi.rows[2].placekey
          /\ PoiOpacity(fig, 2) = Rat(1, 1)
       \/ PoiOpacity(fig, 2) = Rat(3, 10)

\* The overlay traces of a figure: every trace after the POI trace.
Overlay(f) == SubSeq(f.data, 2, Len(f.data))

\* C3: a click whose identifier has no row in the visits file returns a
\* figure without county overlay and the no-data text for that identifier,
\* and the opacity rule is applied all the same.
C3_NoData ==
    (Clicked /\ RowsOf(LastId) = {}) =>
        /\ Overlay(fig) = <<>>
        /\ info.text = "No county-level visitor data found for this POI."
        /\ info.placekey = LastId
        /\ \A i \in DOMAIN csv_poi.rows :
              PoiOpacity(fig, i) =
                 IF Str(csv_poi.rows[i].placekey) = LastId
                 THEN Rat(1, 1) ELSE Rat(3, 10)

\* A click on a POI of the file that has no rows, with another POI dimmed,
\* while the visits file has rows of other POIs.
C3_Witness ==
    /\ Clicked
    /\ RowsOf(LastId) = {}
    /\ csv_visits.rows # <<>>
    /\ \E i, j \in DOMAIN csv_poi.rows :
          /\ PoiOpacity(fig, i) = Rat(1, 1)
          /\ PoiOpacity(fig, j) = Rat(3, 10)

\* C7: the identifier is the string form of the first element of a
\* non-empty list or tuple, and the raw count its second element if there is
\* one; for every other customdata (a scalar, an empty list or tuple, none)
\* the identifier is the string form of the whole and the raw count is none.
C7_ClickNormalization ==
    Clicked =>
        LET cd == LastCustomdata
        IN  /\ (cd.t \in {"list", "tuple"} /\ Len(cd.v) >= 2) =>
                  info.placekey = Str(cd.v[1]) /\ info.raw_visit_counts = cd.v[2]
            /\ (cd.t \in {"list", "tuple"} /\ Len(cd.v) = 1) =>
                  info.placekey = Str(cd.v[1]) /\ info.raw_visit_counts = None
            /\ (cd.t \in {"list", "tuple"} /\ Len(cd.v) = 0) =>
                  info.placekey = Str(cd) /\ info.raw_visit_counts = None
            /\ cd.t \notin {"list", "tuple"} =>
                  info.placekey = Str(cd) /\ info.raw_visit_counts = None
            /\ cd = PyList(<<>>) => info.placekey = <<"[", "]">>
            /\ cd = PyTuple(<<>>) => info.placekey = <<"(", ")">>
            /\ cd = PyInt(7) => info.placekey = <<"7">>
            /\ cd = None => info.placekey = <<"N", "o", "n", "e">>

\* A click whose customdata is a one-element list.
C7_Witness ==
    /\ Clicked
    /\ LastCustomdata.t = "list"
    /\ Len(LastCustomdata.v) = 1
    /\ info.raw_visit_counts = None

\* The sum of the visit counts of a set of rows, as a fraction n/d.
RECURSIVE SumOf(_)
SumOf(I) ==
    IF I = {} THEN Zero
    ELSE LET i == CHOOSE k \in I : TRUE
         IN  RatAdd(ToFloat(csv_visits.rows[i].visits), SumOf(I \ {i}))

\* The whole number w is the fraction r without its fractional part.
WholePart(w, r) ==
    IF r.n >= 0 THEN w * r.d <= r.n /\ r.n < (w + 1) * r.d
    ELSE (w - 1) * r.d < r.n /\ r.n <= w * r.d

\* C10: with no click the text is the prompt; for a click on an identifier
\* with rows in the visits file the text reports that identifier, the raw
\* count of the click, the number of its rows, the number of distinct county
\* codes among them and the whole part of the sum of their visit counts, and
\* the overlay has one marker per row.
C10_Summary ==
    /\ (Called /\ clickData = None) =>
          info = [text |-> "Click a casino to see visitor origin counties."]
    /\ (Clicked /\ RowsOf(LastId) # {}) =>
          /\ info.text = "Matched county rows"
          /\ info.placekey = LastId
          /\ info.raw_visit_counts =
                NormalizeClick(LastCustomdata).raw_visits
          /\ info.rows = Cardinality(RowsOf(LastId))
          /\ info.counties =
                Cardinality({ csv_visits.rows[i].county : i \in RowsOf(LastId) })
          /\ WholePart(info.total, SumOf(RowsOf(LastId)))
          /\ Len(Overlay(fig)) = 1
          /\ Len(fig.data[2].lat) = info.rows
          /\ Len(fig.data[2].lon) = info.rows
          /\ Len(fig.data[2].hovertext) = info.rows

\* A click on a POI with two rows of one county and a fractional sum.
C10_Witness ==
    /\ Clicked
    /\ Len(Overlay(fig)) = 1
    /\ info.rows = 2
    /\ info.counties = 1
    /\ SumOf(RowsOf(LastId)).d # 1

\* The start-up script has built the index.
IndexBuilt == pc \in {"scatter_mapbox", "update_traces", "serving"}

\* The j-th smallest member of a set of row numbers.
Nth(I, j) == CHOOSE i \in I : Cardinality({ k \in I : k < i }) = j - 1

\* Row r of the index holds the data of row q of the visits file.
SameData(r, q) ==
    /\ r.county = q.county
    /\ r.NAME = q.NAME
    /\ r.lat = q.lat
    /\ r.lon = q.lon
    /\ r.visits.v = ToFloat(q.visits)

RECURSIVE TotalRows(_, _)
TotalRows(index, K) ==
    IF K = {} THEN 0
    ELSE LET k == CHOOSE x \in K : TRUE
         IN  Len(index[k].rows) + TotalRows(index, K \ {k})

\* C5: the keys of the index are the string forms of the identifiers in the
\* visits file; the group of a key holds exactly the rows with that
\* identifier, in file order; no group is empty; the group sizes add up to
\* the number of rows of the file.
C5_IndexPartition ==
    IndexBuilt =>
        /\ DOMAIN visits_by_placekey =
              { Str(csv_visits.rows[i].placekey) : i \in DOMAIN csv_visits.rows }
        /\ \A k \in DOMAIN visits_by_placekey :
              LET g == visits_by_placekey[k].rows
              IN  /\ Len(g) > 0
                  /\ Len(g) = Cardinality(RowsOf(k))
                  /\ \A j \in DOMAIN g :
                        /\ g[j].placekey = PyStr(k)
                        /\ SameData(g[j], csv_visits.rows[Nth(RowsOf(k), j)])
        /\ TotalRows(visits_by_placekey, DOMAIN visits_by_placekey) =
              Len(csv_visits.rows)

\* Two rows of one POI with a row of another POI between them.
C5_Witness ==
    /\ IndexBuilt
    /\ Len(csv_visits.rows) = 3
    /\ Str(csv_visits.rows[1].placekey) = Str(csv_visits.rows[3].placekey)
    /\ Str(csv_visits.rows[1].placekey) # Str(csv_visits.rows[2].placekey)
    /\ csv_visits.rows[1].visits # csv_visits.rows[3].visits
    /\ Len(visits_by_placekey[Str(csv_visits.rows[1].placekey)].rows) = 2

\* Rows i and j of the visits file are in one group of the index.
InGroup(i, k) ==
    \E p \in DOMAIN visits_by_placekey[k].rows :
        SameData(visits_by_placekey[k].rows[p], csv_visits.rows[i])
SameGroup(i, j) ==
    \E k \in DOMAIN visits_by_placekey : InGroup(i, k) /\ InGroup(j, k)

LastVisits ==
    [p \in 1..Cardinality(RowsOf(LastId)) |->
        ToFloat(csv_visits.rows[Nth(RowsOf(LastId), p)].visits)]

\* The size of county marker p in figure f.
CountySize(f, p) ==
    LET z == f.data[2].marker.size
    IN  IF z.t = "scalar" THEN z.v ELSE z.v[p]

\* C4: for a clicked POI whose visit counts are non-negative with a largest
\* count m > 0, the size of each county marker is 6 + 18 * (visits / m): it
\* lies in [6, 24], is 24 for a row with m visits and 6 for a row with none,
\* and visits 10, 5, 0 give sizes 24, 15, 6; when the largest count is 0
\* every marker has size 8.
C4_MarkerSizes ==
    (Clicked /\ RowsOf(LastId) # {}) =>
        LET v == LastVisits
            m == v[CHOOSE p \in DOMAIN v : \A q \in DOMAIN v : RatLeq(v[q], v[p])]
        IN  /\ ((\A p \in DOMAIN v : v[p].n >= 0) /\ m.n > 0) =>
                  \A p \in DOMAIN v :
                     LET z == CountySize(fig, p)
                     IN  /\ z.n * (v[p].d * m.n)
                               = z.d * (6 * v[p].d * m.n + 18 * v[p].n * m.d)
                         /\ 6 * z.d <= z.n
                         /\ z.n <= 24 * z.d
                         /\ v[p] = m => z = Rat(24, 1)
                         /\ v[p].n = 0 => z = Rat(6, 1)
            /\ v = <<Rat(10, 1), Rat(5, 1), Rat(0, 1)>> =>
                  fig.data[2].marker.size.v = <<Rat(24, 1), Rat(15, 1), Rat(6, 1)>>
            /\ m.n = 0 =>
                  /\ fig.data[2].marker.size = [t |-> "scalar", v |-> Rat(8, 1)]
                  /\ \A p \in DOMAIN v : CountySize(fig, p) = Rat(8, 1)

\* The click on the POI with visits 10, 5, 0 and its sizes 24, 15, 6.
C4_Witness ==
    /\ Clicked
    /\ RowsOf(LastId) # {}
    /\ LastVisits = <<Rat(10, 1), Rat(5, 1), Rat(0, 1)>>
    /\ fig.data[2].marker.size.v = <<Rat(24, 1), Rat(15, 1), Rat(6, 1)>>

\* The base figure as the start-up script leaves it.
StartupFigure ==
    update_traces(scatter_mapbox(df_poi_raw_jan.rows),
                  PoiCustomdata(df_poi_raw_jan.rows))

\* What update_map returns for a click when run on the start-up state.
Alone(click) ==
    update_map(click, [base_fig |-> StartupFigure, fig |-> Unbound],
               df_poi_raw_jan, visits_by_placekey)

PrevId == NormalizeClick(PointGet(prevClick.points[1], "customdata")).placekey_clicked

\* C2: whatever clicks came before, the figure and the text returned for
\* the last click are those the click gives when processed alone on the
\* start-up state: the text names the last identifier, and the overlay is
\* the one county trace of that identifier's rows, or empty if it has none.
C2_LastClickWins ==
    Called =>
        /\ fig = Alone(clickData).fig
        /\ info = Alone(clickData).info
        /\ Clicked =>
              /\ info.placekey = LastId
              /\ Len(Overlay(fig)) = (IF RowsOf(LastId) = {} THEN 0 ELSE 1)
              /\ RowsOf(LastId) # {} =>
                    /\ Len(fig.data[2].lat) = Cardinality(RowsOf(LastId))
                    /\ \A p \in DOMAIN fig.data[2].lat :
                          /\ fig.data[2].lat[p]
                                = csv_visits.rows[Nth(RowsOf(LastId), p)].lat
                          /\ fig.data[2].hovertext[p].FIPS
                                = Str(csv_visits.rows[Nth(RowsOf(LastId), p)].county)

\* A click on a POI with rows, after a click on another POI with rows.
C2_Witness ==
    /\ Clicked
    /\ prevClick # Unbound
    /\ prevClick # None
    /\ PrevId # LastId
    /\ RowsOf(PrevId) # {}
    /\ RowsOf(LastId) # {}
    /\ Len(Overlay(fig)) = 1

\* C9: an invocation of the callback leaves the POI frame, the index and
\* the base figure as they were, the base figure with POI opacity 1.0 and no
\* overlay; an invocation with the input of the one before returns the same
\* figure and text.
C9_ReadOnly ==
    [][pc = "serving" =>
          /\ df_poi_raw_jan' = df_poi_raw_jan
          /\ visits_by_placekey' = visits_by_placekey
          /\ base_fig' = base_fig
          /\ Len(base_fig'.data) = 1
          /\ base_fig'.data[1].marker.opacity = [t |-> "scalar", v |-> Rat(1, 1)]
          /\ (clickData' = clickData => fig' = fig /\ info' = info)]_vars

\* A returned figure with a dimmed POI and an overlay, beside the base
\* figure with neither.
C9_Witness ==
    /\ Clicked
    /\ Len(Overlay(fig)) = 1
    /\ \E i \in DOMAIN csv_poi.rows : PoiOpacity(fig, i) = Rat(3, 10)
    /\ Len(base_fig.data) = 1
    /\ base_fig.data[1].marker.opacity = [t |-> "scalar", v |-> Rat(1, 1)]

\* Kinds of malformed input.
MissingColumn == csv_poi.columns # PoiColumns \/ csv_visits.columns # VisitColumns
BadCoordinate ==
    \/ \E i \in DOMAIN csv_poi.rows :
          ~IsNumber(csv_poi.rows[i].latitude) \/ ~IsNumber(csv_poi.rows[i].longitude)
    \/ \E i \in DOMAIN csv_visits.rows :
          ~IsNumber(csv_visits.rows[i].lat) \/ ~IsNumber(csv_visits.rows[i].lon)
BadVisitCount == \E i \in DOMAIN csv_visits.rows : ~IsNumber(csv_visits.rows[i].visits)
BadRawCount == \E i \in DOMAIN csv_poi.rows : ~IsNumber(csv_poi.rows[i].raw_visit_counts)

=============================================================================
